---- MODULE Spec2Model ----
(***************************************************************************)
(* Model of monitor_compact.py: the compatibility wrapper that forwards    *)
(* every call to the strict `monitor` module and converts the exceptions   *)
(* it raises into legacy return values.                                    *)
(*                                                                         *)
(* The collaborator (`monitor`) is the environment: in every call it       *)
(* either raises one of its error classes or returns some Python value,    *)
(* and it owns module attributes that it may rebind or mutate at any time. *)
(* Python values are tagged records; a list held in a module attribute is  *)
(* an object with identity (a reference into `heap`), because the adapter  *)
(* copies the reference, not the list.                                     *)
(***************************************************************************)
EXTENDS Integers, Sequences, FiniteSets, TLC

\* ------------------------------------------------------------------ bounds
MaxLen == 2        \* longest testcase list the collaborator returns
MaxJobs == 1       \* longest job list held in monitor.final_job_list

\* ------------------------------------------------------------ Python values
None == [tag |-> "NoneType"]
PyStr(s) == [tag |-> "str", s |-> s]
PyBool(b) == [tag |-> "bool", b |-> b]
PyInt(n) == [tag |-> "int", n |-> n]
PyList(items) == [tag |-> "list", items |-> items]
PyTuple(elems) == [tag |-> "tuple", elems |-> elems]
PyDict(map) == [tag |-> "dict", map |-> map]
\* a list object with identity, as held in a module attribute
PyListRef(r) == [tag |-> "listref", ref |-> r]
\* a module-level function object, named by its module and its name
PyFunc(mod, name) == [tag |-> "function", mod |-> mod, name |-> name]
\* reading an attribute the module does not have raises
Missing == [tag |-> "<no attribute>"]

\* what a call does: it raises an exception class or it returns a value
Raise(exc) == [raises |-> TRUE, exc |-> exc]
Return(v) == [raises |-> FALSE, value |-> v]
\* a RuntimeError built by the adapter carries a message
RaiseMsg(exc, msg) == [raises |-> TRUE, exc |-> exc, msg |-> msg]
\* the collaborator was not called at all
NoCall == [raises |-> FALSE, called |-> FALSE]

\* the collaborator's three typed errors, and one class standing for every
\* other Exception subclass
ErrKinds == {"ProwTimeoutError", "ProwFetchError", "ProwParseError", "ValueError"}

TcName(i) == "tc" \o ToString(i)
TcList(n) == [i \in 1..n |-> TcName(i)]
Lists == {PyList(TcList(n)) : n \in 0..MaxLen}
Tuples2 == {PyTuple(<<l, m>>) : l \in Lists, m \in {None, PyStr("legacy message")}}
Scalars == {None, PyStr("ok"), PyBool(TRUE), PyBool(FALSE), PyInt(0)}

TcKeys == {"conformance", "monitor", "symptom_detection"}
\* every mapping from some of the three keys to a testcase list
Mappings == {PyDict(m) : m \in UNION {[K -> {TcList(n) : n \in 0..MaxLen}] : K \in SUBSET TcKeys}}
ErrorObject(v) == PyDict([k \in TcKeys |-> v])
Tuples3 == {PyTuple(<<PyDict(<<>>), PyInt(0), ErrorObject(PyStr("legacy message"))>>),
            PyTuple(<<PyDict([k \in TcKeys |-> TcList(1)]), PyInt(3), ErrorObject(None)>>),
            PyTuple(<<None, None, None>>)}

\* what the collaborator may return from an ordinary operation
Values == Scalars \cup Lists \cup Tuples2 \cup Tuples3
\* what the collaborator may do in an ordinary operation
Behaviours == {Raise(k) : k \in ErrKinds} \cup {Return(v) : v \in Values}
\* monitor.get_all_failed_tc may also return any mapping
AllFailedTcBehaviours == Behaviours \cup {Return(v) : v \in Mappings}

Platforms == {"powervs", "libvirt"}
Urls == {PyStr("https://prow.ci.openshift.org"), PyStr("https://prow.example")}
ExtraValues == {PyStr("c1"), PyStr("c2")}
JobList(n) == [i \in 1..n |-> "job" \o ToString(i)]
\* list objects: AdapterRef is the list the adapter makes itself (line 23),
\* the others are lists the collaborator makes
AdapterRef == "r0"
MonitorRefs == {"r1", "r2"}
Refs == {AdapterRef} \cup MonitorRefs

VARIABLES
    monitor_PROW_URL,        \* monitor.PROW_URL, or Missing
    monitor_final_job_list,  \* monitor.final_job_list: a list reference, or Missing
    monitor_extra,           \* an attribute only the collaborator defines
    heap,                    \* the contents of every list object
    PROW_URL,                \* the adapter's global PROW_URL
    final_job_list,          \* the adapter's global final_job_list
    atLoad,                  \* history: the collaborator's attributes as read at load
    last                     \* the access whose outcome the caller is looking at

vars == <<monitor_PROW_URL, monitor_final_job_list, monitor_extra, heap,
          PROW_URL, final_job_list, atLoad, last>>

\* ------------------------------------------------------------- module load
\* lines 14-26: each attribute is read inside its own try/except
_sync_module_attrs(mon_url, mon_fjl) ==
    [PROW_URL |-> IF mon_url = Missing THEN None ELSE mon_url,
     final_job_list |-> IF mon_fjl = Missing THEN PyListRef(AdapterRef) ELSE mon_fjl]

\* ---------------------------------------------------- error mapping helper
\* lines 29-40 with the timeout and fetch strings exchanged
_err_str_from_exc_swapped(exc) ==
    IF exc = "ProwTimeoutError" THEN "Error while sending request to url"
    ELSE IF exc = "ProwFetchError" THEN "Request timed out"
    ELSE "ERROR"

_err_str_from_exc(exc) ==
    IF exc = "ProwTimeoutError" THEN "Request timed out"
    ELSE IF exc = "ProwFetchError" THEN "Error while sending request to url"
    ELSE IF exc = "ProwParseError" THEN "ERROR"
    ELSE "ERROR"

\* --------------------------------------------------------- wrapped functions
\* Each operator takes what the collaborator's function did in the call (it
\* raised, or it returned a value) and gives what the adapter's function does.

\* lines 44-55, 71-111, 121-131: try / except Exception -> _err_str_from_exc
fetch_release_date(beh) ==
    IF beh.raises THEN Return(PyStr(_err_str_from_exc(beh.exc))) ELSE Return(beh.value)

fetch_build_time(beh) ==
    IF beh.raises THEN Return(PyStr(_err_str_from_exc(beh.exc))) ELSE Return(beh.value)

\* lines 57-69: no try block, the collaborator's error propagates
set_prow_url(beh) == beh

load_config(beh) == beh

get_current_date(beh) == beh

parse_job_date(beh) == beh

\* lines 71-75 with the call made outside the try block
get_jobs_unguarded(beh) == beh

get_jobs(beh) ==
    IF beh.raises THEN Return(PyStr(_err_str_from_exc(beh.exc))) ELSE Return(beh.value)

get_n_recent_jobs(beh) ==
    IF beh.raises THEN Return(PyStr(_err_str_from_exc(beh.exc))) ELSE Return(beh.value)

check_job_status(beh) ==
    IF beh.raises THEN Return(PyStr(_err_str_from_exc(beh.exc))) ELSE Return(beh.value)

cluster_deploy_status(beh) ==
    IF beh.raises THEN Return(PyStr(_err_str_from_exc(beh.exc))) ELSE Return(beh.value)

cluster_creation_error_analysis(beh) ==
    IF beh.raises THEN Return(PyStr(_err_str_from_exc(beh.exc))) ELSE Return(beh.value)

check_if_gather_libvirt_dir_exists(beh) ==
    IF beh.raises THEN Return(PyStr(_err_str_from_exc(beh.exc))) ELSE Return(beh.value)

check_hypervisor_error(beh) ==
    IF beh.raises THEN Return(PyStr(_err_str_from_exc(beh.exc))) ELSE Return(beh.value)

\* lines 113-119: every error is re-raised as a RuntimeError whose message
\* is the f-string around the mapped legacy string
\* (the variant the comment at line 118 speaks of: answer False instead)
check_if_sensitive_info_exposed_returns_false(beh) ==
    IF beh.raises THEN Return(PyBool(FALSE)) ELSE Return(beh.value)

check_if_sensitive_info_exposed(beh) ==
    IF beh.raises
    THEN RaiseMsg("RuntimeError",
                  "Error in check_if_sensitive_info_exposed: " \o _err_str_from_exc(beh.exc))
    ELSE Return(beh.value)

get_node_status(beh) ==
    IF beh.raises THEN Return(PyStr(_err_str_from_exc(beh.exc))) ELSE Return(beh.value)

check_node_crash(beh) ==
    IF beh.raises THEN Return(PyStr(_err_str_from_exc(beh.exc))) ELSE Return(beh.value)

\* lines 133-143: one fixed string whatever the error
\* (get_lease answering by the generic table instead)
get_lease_generic(beh, job_platform) ==
    IF beh.raises THEN Return(PyStr(_err_str_from_exc(beh.exc))) ELSE Return(beh.value)

get_lease(beh, job_platform) ==
    IF beh.raises THEN Return(PyStr("Failed to fetch lease information")) ELSE Return(beh.value)

get_nightly(beh, job_platform) ==
    IF beh.raises
    THEN Return(PyStr("Unable to fetch nightly " \o job_platform
                      \o " information - No match found"))
    ELSE Return(beh.value)

\* lines 145-154
get_quota_and_nightly(beh) ==
    IF ~beh.raises THEN Return(beh.value)
    ELSE IF beh.exc = "ProwTimeoutError"
         THEN Return(PyTuple(<<PyStr("Request timed out"), None>>))
    ELSE IF beh.exc = "ProwFetchError"
         THEN Return(PyTuple(<<PyStr("Error while sending request to url"), None>>))
    ELSE Return(PyTuple(<<PyStr("Failed to fetch lease information"), None>>))

\* lines 156-158: forwarded
job_classifier(beh) == beh

\* lines 160-175: the only testcase wrapper that looks at the shape it got
get_failed_monitor_testcases(beh) ==
    IF ~beh.raises
    THEN IF beh.value.tag = "tuple" THEN Return(beh.value)
         ELSE Return(PyTuple(<<beh.value, None>>))
    ELSE IF beh.exc = "ProwTimeoutError"
         THEN Return(PyTuple(<<PyList(<<>>), PyStr("Request timed out")>>))
    ELSE IF beh.exc = "ProwFetchError"
         THEN Return(PyTuple(<<PyList(<<>>), PyStr("Failed to get response from e2e-test directory url")>>))
    ELSE IF beh.exc = "ProwParseError"
         THEN Return(PyTuple(<<PyList(<<>>), PyStr("Failed to parse the data from e2e-test log file!")>>))
    ELSE Return(PyTuple(<<PyList(<<>>), PyStr("Failed to parse the data from e2e-test log file!")>>))

\* lines 177-188: `return tcs, None` whatever tcs is
get_failed_monitor_testcases_from_xml(beh) ==
    IF ~beh.raises THEN Return(PyTuple(<<beh.value, None>>))
    ELSE IF beh.exc = "ProwTimeoutError"
         THEN Return(PyTuple(<<PyList(<<>>), PyStr("Request timed out")>>))
    ELSE IF beh.exc = "ProwFetchError"
         THEN Return(PyTuple(<<PyList(<<>>), PyStr("Failed to get response from e2e-test directory url")>>))
    ELSE IF beh.exc = "ProwParseError"
         THEN Return(PyTuple(<<PyList(<<>>), PyStr("Failed to parse junit e2e log file!")>>))
    ELSE Return(PyTuple(<<PyList(<<>>), PyStr("Monitor test file not found")>>))

\* lines 190-194
\* (get_testcase_frequency answering None instead of {})
get_testcase_frequency_none(beh) ==
    IF beh.raises THEN Return(None) ELSE Return(beh.value)

get_testcase_frequency(beh) ==
    IF beh.raises THEN Return(PyDict(<<>>)) ELSE Return(beh.value)

\* lines 196-208
get_failed_e2e_testcases(beh) ==
    IF ~beh.raises THEN Return(PyTuple(<<beh.value, None>>))
    ELSE IF beh.exc = "ProwTimeoutError"
         THEN Return(PyTuple(<<PyList(<<>>), PyStr("Request timed out")>>))
    ELSE IF beh.exc = "ProwFetchError"
         THEN Return(PyTuple(<<PyList(<<>>), PyStr("Failed to get response from e2e-test directory url")>>))
    ELSE IF beh.exc = "ProwParseError"
         THEN Return(PyTuple(<<PyList(<<>>), PyStr("Failed to parse the data from e2e-test log file!")>>))
    ELSE Return(PyTuple(<<PyList(<<>>), PyStr("Test summary file not found")>>))

\* lines 210-221
get_junit_symptom_detection_testcase_failures(beh) ==
    IF ~beh.raises THEN Return(PyTuple(<<beh.value, None>>))
    ELSE IF beh.exc = "ProwTimeoutError"
         THEN Return(PyTuple(<<PyList(<<>>), PyStr("Request timed out")>>))
    ELSE IF beh.exc = "ProwFetchError"
         THEN Return(PyTuple(<<PyList(<<>>), PyStr("Error while sending request to url")>>))
    ELSE IF beh.exc = "ProwParseError"
         THEN Return(PyTuple(<<PyList(<<>>), PyStr("Failed to parse symptom detection e2e log file!")>>))
    ELSE Return(PyTuple(<<PyList(<<>>), PyStr("Junit test summary file not found")>>))

\* dict.get(key, []) of line 235-237
DictGet(map, key) == IF key \in DOMAIN map THEN map[key] ELSE <<>>

\* lines 229-240, the body of the try block: the collaborator's error passes
\* through; a value that is no 3-tuple is used as a mapping, and `.get` on
\* anything but a mapping raises AttributeError
get_all_failed_tc_try(beh) ==
    IF beh.raises THEN beh
    ELSE LET failed_tc == beh.value IN
         IF failed_tc.tag = "tuple" /\ Len(failed_tc.elems) = 3 THEN Return(failed_tc)
         ELSE IF failed_tc.tag # "dict" THEN Raise("AttributeError")
         ELSE LET conformance == DictGet(failed_tc.map, "conformance")
                  monitor_list == DictGet(failed_tc.map, "monitor")
                  symptom == DictGet(failed_tc.map, "symptom_detection")
                  failed_tc_count == Len(conformance) + Len(monitor_list) + Len(symptom)
              IN Return(PyTuple(<<failed_tc, PyInt(failed_tc_count), ErrorObject(None)>>))

\* lines 241-248, the except clauses
get_all_failed_tc_except(exc) ==
    IF exc = "ProwTimeoutError"
    THEN Return(PyTuple(<<PyDict(<<>>), PyInt(0), ErrorObject(PyStr("Request timed out"))>>))
    ELSE IF exc = "ProwFetchError"
    THEN Return(PyTuple(<<PyDict(<<>>), PyInt(0), ErrorObject(PyStr("Error while sending request to url"))>>))
    ELSE IF exc = "ProwParseError"
    THEN Return(PyTuple(<<PyDict(<<>>), PyInt(0), ErrorObject(PyStr("Failed to parse the data from e2e-test log file!"))>>))
    ELSE Return(PyTuple(<<PyDict(<<>>), PyInt(0), ErrorObject(PyStr("Test summary file not found"))>>))

\* the count taken over two of the three lists only
get_all_failed_tc_short_count(beh) ==
    LET r == get_all_failed_tc_try(beh) IN
    IF r.raises THEN get_all_failed_tc_except(r.exc)
    ELSE IF ~beh.raises /\ beh.value.tag = "dict"
         THEN Return(PyTuple(<<beh.value,
                               PyInt(Len(DictGet(beh.value.map, "conformance"))
                                     + Len(DictGet(beh.value.map, "monitor"))),
                               ErrorObject(None)>>))
         ELSE r

\* the normalization done outside the try block
get_all_failed_tc_unguarded(beh) ==
    IF beh.raises THEN get_all_failed_tc_except(beh.exc) ELSE get_all_failed_tc_try(beh)

\* lines 223-248
get_all_failed_tc(beh) ==
    LET r == get_all_failed_tc_try(beh) IN
    IF r.raises THEN get_all_failed_tc_except(r.exc) ELSE r

\* lines 250-260
check_ts_exe_status(beh) ==
    IF ~beh.raises THEN Return(beh.value)
    ELSE IF beh.exc = "ProwTimeoutError" THEN Return(PyStr("Request timed out"))
    ELSE IF beh.exc = "ProwFetchError" THEN Return(PyStr("Error while sending request to url"))
    ELSE IF beh.exc = "ProwParseError" THEN Return(PyStr("ERROR"))
    ELSE Return(PyStr("ERROR"))

\* lines 262-272
print_all_failed_tc(beh) ==
    IF ~beh.raises THEN Return(beh.value)
    ELSE IF beh.exc = "ProwTimeoutError" THEN Return(PyStr("Request timed out"))
    ELSE IF beh.exc = "ProwFetchError" THEN Return(PyStr("Error while sending request to url"))
    ELSE IF beh.exc = "ProwParseError" THEN Return(PyStr("ERROR"))
    ELSE Return(PyStr("ERROR"))

\* lines 274-279
check_testcase_failure(beh) ==
    IF beh.raises THEN Return(PyBool(FALSE)) ELSE Return(beh.value)

\* lines 281-291
get_jobs_with_date(beh) ==
    IF ~beh.raises THEN Return(beh.value)
    ELSE IF beh.exc = "ProwTimeoutError" THEN Return(PyStr("Request timed out"))
    ELSE IF beh.exc = "ProwFetchError" THEN Return(PyStr("Error while sending request to url"))
    ELSE IF beh.exc = "ProwParseError" THEN Return(PyStr("ERROR"))
    ELSE Return(PyStr("ERROR"))

\* lines 293-303
get_next_page_first_build_date(beh) ==
    IF ~beh.raises THEN Return(beh.value)
    ELSE IF beh.exc = "ProwTimeoutError" THEN Return(PyStr("Request timed out"))
    ELSE IF beh.exc = "ProwFetchError" THEN Return(PyStr("Error while sending request to url"))
    ELSE IF beh.exc = "ProwParseError" THEN Return(PyStr("ERROR"))
    ELSE Return(PyStr("ERROR"))

\* lines 305-316
get_brief_job_info(beh) ==
    IF ~beh.raises THEN Return(beh.value)
    ELSE IF beh.exc = "ProwTimeoutError" THEN Return(PyList(<<>>))
    ELSE IF beh.exc = "ProwFetchError" THEN Return(PyList(<<>>))
    ELSE IF beh.exc = "ProwParseError" THEN Return(PyList(<<>>))
    ELSE Return(PyList(<<>>))

\* lines 318-328
get_detailed_job_info(beh) ==
    IF ~beh.raises THEN Return(beh.value)
    ELSE IF beh.exc = "ProwTimeoutError" THEN Return(PyInt(1))
    ELSE IF beh.exc = "ProwFetchError" THEN Return(PyInt(1))
    ELSE IF beh.exc = "ProwParseError" THEN Return(PyInt(1))
    ELSE Return(PyInt(1))

\* ------------------------------------------------------ module namespaces
OpNames == {"fetch_release_date", "fetch_build_time", "set_prow_url",
            "load_config", "get_current_date", "parse_job_date",
            "get_jobs", "get_n_recent_jobs", "check_job_status",
            "cluster_deploy_status", "cluster_creation_error_analysis", "check_if_gather_libvirt_dir_exists",
            "check_hypervisor_error", "check_if_sensitive_info_exposed", "get_node_status",
            "check_node_crash", "get_lease", "get_nightly",
            "get_quota_and_nightly", "job_classifier", "get_failed_monitor_testcases",
            "get_failed_monitor_testcases_from_xml", "get_testcase_frequency", "get_failed_e2e_testcases",
            "get_junit_symptom_detection_testcase_failures", "get_all_failed_tc", "check_ts_exe_status",
            "print_all_failed_tc", "check_testcase_failure", "get_jobs_with_date",
            "get_next_page_first_build_date", "get_brief_job_info", "get_detailed_job_info"}

\* every name bound at the adapter's module level: the two globals (lines
\* 11-12), the imports (lines 8-9) and every def
AdapterNames == OpNames \cup {"PROW_URL", "final_job_list", "monitor", "Tuple", "List", "Dict",
                              "Any", "_sync_module_attrs", "_err_str_from_exc", "__getattr__"}
\* the names read in the model: two globals, a wrapped function, a name only
\* the collaborator binds, and a name nobody binds
AttrNames == {"PROW_URL", "final_job_list", "get_lease", "extra_constant", "no_such_name"}

\* the adapter module's own dictionary
AdapterDict(name) ==
    IF name = "PROW_URL" THEN PROW_URL
    ELSE IF name = "final_job_list" THEN final_job_list
    ELSE PyFunc("monitor_compact", name)

\* the collaborator module's dictionary
MonitorDict(name) ==
    IF name = "PROW_URL" THEN monitor_PROW_URL
    ELSE IF name = "final_job_list" THEN monitor_final_job_list
    ELSE IF name = "extra_constant" THEN monitor_extra
    ELSE IF name \in OpNames THEN PyFunc("monitor", name)
    ELSE Missing

\* getattr(monitor, name)
monitor_getattr(name) ==
    IF MonitorDict(name) = Missing THEN Raise("AttributeError") ELSE Return(MonitorDict(name))

\* the fallback answering with what the collaborator had at load
__getattr___cached(name) ==
    IF name = "PROW_URL" THEN Return(PROW_URL)
    ELSE IF name = "final_job_list" THEN Return(final_job_list)
    ELSE IF name = "extra_constant" THEN Return(atLoad.extra)
    ELSE monitor_getattr(name)

\* lines 331-332
__getattr__(name) == monitor_getattr(name)

\* reading `monitor_compact.<name>`: the module's dictionary first, and the
\* module-level __getattr__ only for a name the dictionary lacks
module_getattr(name) ==
    IF name \in AdapterNames THEN Return(AdapterDict(name)) ELSE __getattr__(name)

\* the adapter's globals after a wrapped call, given the collaborator's
\* attributes after it: no wrapper has a `global` statement or assigns one
\* (globals_after_call_resync: a wrapper that ran _sync_module_attrs again)
globals_after_call_resync(mon_url, mon_fjl) == _sync_module_attrs(mon_url, mon_fjl)

globals_after_call(mon_url, mon_fjl) ==
    [PROW_URL |-> PROW_URL, final_job_list |-> final_job_list]

\* ------------------------------------------------------------------- state
\* no access is outstanding: the caller makes one access at a time (the
\* calls are synchronous, spec section 5) and moves on when it has the outcome
Idle == [op |-> "", arg |-> "", beh |-> NoCall, out |-> Return(None)]

Init ==
    /\ monitor_PROW_URL \in {Missing, PyStr("https://prow.ci.openshift.org")}
    /\ monitor_final_job_list \in {Missing, PyListRef("r1")}
    /\ monitor_extra = PyStr("c1")
    /\ \E n \in 0..MaxJobs :
          /\ monitor_final_job_list = Missing => n = 0
          /\ heap = [r \in Refs |-> IF r = "r1" THEN JobList(n) ELSE <<>>]
    /\ PROW_URL = _sync_module_attrs(monitor_PROW_URL, monitor_final_job_list).PROW_URL
    /\ final_job_list = _sync_module_attrs(monitor_PROW_URL, monitor_final_job_list).final_job_list
    /\ atLoad = [PROW_URL |-> monitor_PROW_URL,
                 final_job_list |-> monitor_final_job_list,
                 items |-> heap[final_job_list.ref],
                 extra |-> monitor_extra]
    /\ last = Idle

\* a wrapped function was called with the collaborator doing `beh`
Called(op, arg, beh, out) ==
    /\ last = Idle
    /\ last' = [op |-> op, arg |-> arg, beh |-> beh, out |-> out]
    /\ PROW_URL' = globals_after_call(monitor_PROW_URL', monitor_final_job_list').PROW_URL
    /\ final_job_list' =
          globals_after_call(monitor_PROW_URL', monitor_final_job_list').final_job_list
    /\ UNCHANGED <<monitor_extra, heap, atLoad>>

Call_fetch_release_date ==
    \E beh \in Behaviours :
        /\ UNCHANGED <<monitor_PROW_URL, monitor_final_job_list>>
        /\ Called("fetch_release_date", "", beh, fetch_release_date(beh))

Call_fetch_build_time ==
    \E beh \in Behaviours :
        /\ UNCHANGED <<monitor_PROW_URL, monitor_final_job_list>>
        /\ Called("fetch_build_time", "", beh, fetch_build_time(beh))

\* monitor.set_prow_url may rebind the collaborator's own PROW_URL
Call_set_prow_url ==
    \E beh \in Behaviours, new_url \in Urls \cup {monitor_PROW_URL} :
        /\ monitor_PROW_URL' = new_url
        /\ UNCHANGED monitor_final_job_list
        /\ Called("set_prow_url", "", beh, set_prow_url(beh))

Call_load_config ==
    \E beh \in Behaviours :
        /\ UNCHANGED <<monitor_PROW_URL, monitor_final_job_list>>
        /\ Called("load_config", "", beh, load_config(beh))

Call_get_current_date ==
    \E beh \in Behaviours :
        /\ UNCHANGED <<monitor_PROW_URL, monitor_final_job_list>>
        /\ Called("get_current_date", "", beh, get_current_date(beh))

Call_parse_job_date ==
    \E beh \in Behaviours :
        /\ UNCHANGED <<monitor_PROW_URL, monitor_final_job_list>>
        /\ Called("parse_job_date", "", beh, parse_job_date(beh))

Call_get_jobs ==
    \E beh \in Behaviours :
        /\ UNCHANGED <<monitor_PROW_URL, monitor_final_job_list>>
        /\ Called("get_jobs", "", beh, get_jobs(beh))

Call_get_n_recent_jobs ==
    \E beh \in Behaviours :
        /\ UNCHANGED <<monitor_PROW_URL, monitor_final_job_list>>
        /\ Called("get_n_recent_jobs", "", beh, get_n_recent_jobs(beh))

Call_check_job_status ==
    \E beh \in Behaviours :
        /\ UNCHANGED <<monitor_PROW_URL, monitor_final_job_list>>
        /\ Called("check_job_status", "", beh, check_job_status(beh))

Call_cluster_deploy_status ==
    \E beh \in Behaviours :
        /\ UNCHANGED <<monitor_PROW_URL, monitor_final_job_list>>
        /\ Called("cluster_deploy_status", "", beh, cluster_deploy_status(beh))

Call_cluster_creation_error_analysis ==
    \E beh \in Behaviours :
        /\ UNCHANGED <<monitor_PROW_URL, monitor_final_job_list>>
        /\ Called("cluster_creation_error_analysis", "", beh, cluster_creation_error_analysis(beh))

Call_check_if_gather_libvirt_dir_exists ==
    \E beh \in Behaviours :
        /\ UNCHANGED <<monitor_PROW_URL, monitor_final_job_list>>
        /\ Called("check_if_gather_libvirt_dir_exists", "", beh, check_if_gather_libvirt_dir_exists(beh))

Call_check_hypervisor_error ==
    \E beh \in Behaviours :
        /\ UNCHANGED <<monitor_PROW_URL, monitor_final_job_list>>
        /\ Called("check_hypervisor_error", "", beh, check_hypervisor_error(beh))

Call_check_if_sensitive_info_exposed ==
    \E beh \in Behaviours :
        /\ UNCHANGED <<monitor_PROW_URL, monitor_final_job_list>>
        /\ Called("check_if_sensitive_info_exposed", "", beh, check_if_sensitive_info_exposed(beh))

Call_get_node_status ==
    \E beh \in Behaviours :
        /\ UNCHANGED <<monitor_PROW_URL, monitor_final_job_list>>
        /\ Called("get_node_status", "", beh, get_node_status(beh))

Call_check_node_crash ==
    \E beh \in Behaviours :
        /\ UNCHANGED <<monitor_PROW_URL, monitor_final_job_list>>
        /\ Called("check_node_crash", "", beh, check_node_crash(beh))

Call_get_lease ==
    \E beh \in Behaviours, job_platform \in Platforms :
        /\ UNCHANGED <<monitor_PROW_URL, monitor_final_job_list>>
        /\ Called("get_lease", job_platform, beh, get_lease(beh, job_platform))

Call_get_nightly ==
    \E beh \in Behaviours, job_platform \in Platforms :
        /\ UNCHANGED <<monitor_PROW_URL, monitor_final_job_list>>
        /\ Called("get_nightly", job_platform, beh, get_nightly(beh, job_platform))

Call_get_quota_and_nightly ==
    \E beh \in Behaviours :
        /\ UNCHANGED <<monitor_PROW_URL, monitor_final_job_list>>
        /\ Called("get_quota_and_nightly", "", beh, get_quota_and_nightly(beh))

Call_job_classifier ==
    \E beh \in Behaviours :
        /\ UNCHANGED <<monitor_PROW_URL, monitor_final_job_list>>
        /\ Called("job_classifier", "", beh, job_classifier(beh))

Call_get_failed_monitor_testcases ==
    \E beh \in Behaviours :
        /\ UNCHANGED <<monitor_PROW_URL, monitor_final_job_list>>
        /\ Called("get_failed_monitor_testcases", "", beh, get_failed_monitor_testcases(beh))

Call_get_failed_monitor_testcases_from_xml ==
    \E beh \in Behaviours :
        /\ UNCHANGED <<monitor_PROW_URL, monitor_final_job_list>>
        /\ Called("get_failed_monitor_testcases_from_xml", "", beh, get_failed_monitor_testcases_from_xml(beh))

Call_get_testcase_frequency ==
    \E beh \in Behaviours :
        /\ UNCHANGED <<monitor_PROW_URL, monitor_final_job_list>>
        /\ Called("get_testcase_frequency", "", beh, get_testcase_frequency(beh))

Call_get_failed_e2e_testcases ==
    \E beh \in Behaviours :
        /\ UNCHANGED <<monitor_PROW_URL, monitor_final_job_list>>
        /\ Called("get_failed_e2e_testcases", "", beh, get_failed_e2e_testcases(beh))

Call_get_junit_symptom_detection_testcase_failures ==
    \E beh \in Behaviours :
        /\ UNCHANGED <<monitor_PROW_URL, monitor_final_job_list>>
        /\ Called("get_junit_symptom_detection_testcase_failures", "", beh, get_junit_symptom_detection_testcase_failures(beh))

Call_get_all_failed_tc ==
    \E beh \in AllFailedTcBehaviours :
        /\ UNCHANGED <<monitor_PROW_URL, monitor_final_job_list>>
        /\ Called("get_all_failed_tc", "", beh, get_all_failed_tc(beh))

Call_check_ts_exe_status ==
    \E beh \in Behaviours :
        /\ UNCHANGED <<monitor_PROW_URL, monitor_final_job_list>>
        /\ Called("check_ts_exe_status", "", beh, check_ts_exe_status(beh))

Call_print_all_failed_tc ==
    \E beh \in Behaviours :
        /\ UNCHANGED <<monitor_PROW_URL, monitor_final_job_list>>
        /\ Called("print_all_failed_tc", "", beh, print_all_failed_tc(beh))

Call_check_testcase_failure ==
    \E beh \in Behaviours :
        /\ UNCHANGED <<monitor_PROW_URL, monitor_final_job_list>>
        /\ Called("check_testcase_failure", "", beh, check_testcase_failure(beh))

Call_get_jobs_with_date ==
    \E beh \in Behaviours :
        /\ UNCHANGED <<monitor_PROW_URL, monitor_final_job_list>>
        /\ Called("get_jobs_with_date", "", beh, get_jobs_with_date(beh))

Call_get_next_page_first_build_date ==
    \E beh \in Behaviours :
        /\ UNCHANGED <<monitor_PROW_URL, monitor_final_job_list>>
        /\ Called("get_next_page_first_build_date", "", beh, get_next_page_first_build_date(beh))

Call_get_brief_job_info ==
    \E beh \in Behaviours :
        /\ UNCHANGED <<monitor_PROW_URL, monitor_final_job_list>>
        /\ Called("get_brief_job_info", "", beh, get_brief_job_info(beh))

Call_get_detailed_job_info ==
    \E beh \in Behaviours :
        /\ UNCHANGED <<monitor_PROW_URL, monitor_final_job_list>>
        /\ Called("get_detailed_job_info", "", beh, get_detailed_job_info(beh))

\* `monitor_compact.<name>` is read
Read_attribute ==
    \E name \in AttrNames :
        /\ last = Idle
        /\ last' = [op |-> "getattr", arg |-> name,
                    beh |-> NoCall,
                    out |-> module_getattr(name)]
        /\ UNCHANGED <<monitor_PROW_URL, monitor_final_job_list, monitor_extra, heap,
                       PROW_URL, final_job_list, atLoad>>

\* the caller has the outcome and goes on
Caller_continues ==
    /\ last # Idle
    /\ last' = Idle
    /\ UNCHANGED <<monitor_PROW_URL, monitor_final_job_list, monitor_extra, heap,
                   PROW_URL, final_job_list, atLoad>>

\* ------------------------------------------------------- the collaborator
\* The collaborator's module attributes are its own: it, or a caller that
\* uses it directly, rebinds them or mutates the list in place.  These steps
\* are taken between the accesses made through the adapter.
Monitor_rebind_PROW_URL ==
    \E u \in Urls :
        /\ last = Idle
        /\ u # monitor_PROW_URL
        /\ monitor_PROW_URL' = u
        /\ UNCHANGED <<monitor_final_job_list, monitor_extra, heap, PROW_URL,
                       final_job_list, atLoad, last>>

\* a list object nobody else holds
FreshRef == IF final_job_list.ref = "r1" THEN "r2" ELSE "r1"

\* monitor.final_job_list = []
Monitor_rebind_final_job_list ==
    /\ last = Idle
    /\ ~(monitor_final_job_list = PyListRef(FreshRef) /\ heap[FreshRef] = <<>>)
    /\ monitor_final_job_list' = PyListRef(FreshRef)
    /\ heap' = [heap EXCEPT ![FreshRef] = <<>>]
    /\ UNCHANGED <<monitor_PROW_URL, monitor_extra, PROW_URL, final_job_list, atLoad, last>>

\* monitor.final_job_list.append(job)
Monitor_append_final_job_list ==
    /\ last = Idle
    /\ monitor_final_job_list # Missing
    /\ Len(heap[monitor_final_job_list.ref]) < MaxJobs
    /\ heap' = [heap EXCEPT ![monitor_final_job_list.ref] =
                   Append(@, "job" \o ToString(Len(@) + 1))]
    /\ UNCHANGED <<monitor_PROW_URL, monitor_final_job_list, monitor_extra, PROW_URL,
                   final_job_list, atLoad, last>>

Monitor_rebind_extra ==
    \E v \in ExtraValues :
        /\ last = Idle
        /\ v # monitor_extra
        /\ monitor_extra' = v
        /\ UNCHANGED <<monitor_PROW_URL, monitor_final_job_list, heap, PROW_URL,
                       final_job_list, atLoad, last>>

Next ==
    \/ Call_get_testcase_frequency
    \/ Call_check_testcase_failure
    \/ Call_fetch_release_date
    \/ Call_fetch_build_time
    \/ Call_set_prow_url
    \/ Call_load_config
    \/ Call_get_current_date
    \/ Call_parse_job_date
    \/ Call_get_jobs
    \/ Call_get_n_recent_jobs
    \/ Call_check_job_status
    \/ Call_cluster_deploy_status
    \/ Call_cluster_creation_error_analysis
    \/ Call_check_if_gather_libvirt_dir_exists
    \/ Call_check_hypervisor_error
    \/ Call_check_if_sensitive_info_exposed
    \/ Call_get_node_status
    \/ Call_check_node_crash
    \/ Call_get_lease
    \/ Call_get_nightly
    \/ Call_get_quota_and_nightly
    \/ Call_job_classifier
    \/ Call_get_failed_monitor_testcases
    \/ Call_get_failed_monitor_testcases_from_xml
    \/ Call_get_failed_e2e_testcases
    \/ Call_get_junit_symptom_detection_testcase_failures
    \/ Call_get_all_failed_tc
    \/ Call_check_ts_exe_status
    \/ Call_print_all_failed_tc
    \/ Call_get_jobs_with_date
    \/ Call_get_next_page_first_build_date
    \/ Call_get_brief_job_info
    \/ Call_get_detailed_job_info
    \/ Read_attribute
    \/ Caller_continues
    \/ Monitor_rebind_PROW_URL
    \/ Monitor_rebind_final_job_list
    \/ Monitor_append_final_job_list
    \/ Monitor_rebind_extra

Spec == Init /\ [][Next]_vars

\* ================================================================== claims
Sensitive == "check_if_sensitive_info_exposed"
\* the functions that only forward (lines 57-69, 156-158)
Forwarding == {"set_prow_url", "load_config", "get_current_date", "parse_job_date",
               "job_classifier"}
\* the generic error-to-value table of the specification
GenericLegacyValue(exc) ==
    CASE exc = "ProwTimeoutError" -> PyStr("Request timed out")
      [] exc = "ProwFetchError" -> PyStr("Error while sending request to url")
      [] OTHER -> PyStr("ERROR")

\* ---- C1
\* C1 as stated: every operation other than check_if_sensitive_info_exposed,
\* the forwarding ones included, returns a value whatever the collaborator
\* raises.
C1_NoErrorEscapes ==
    (last.op \in OpNames \ {Sensitive} /\ last.beh.raises) => ~last.out.raises

\* C1 amended: every operation other than check_if_sensitive_info_exposed and
\* the five forwarding ones returns a value whatever the collaborator did; a
\* forwarding operation does exactly what the collaborator did, so its error
\* reaches the caller.
C1_OnlyForwardersLetErrorsEscape ==
    /\ last.op \in OpNames \ ({Sensitive} \cup Forwarding) => ~last.out.raises
    /\ last.op \in Forwarding => last.out = last.beh

C1_Witness ==
    /\ last.op = "get_jobs" /\ last.beh = Raise("ValueError")
    /\ last.out = Return(PyStr("ERROR"))

\* ---- C2
\* the operations the specification lists as overriding the generic table
ListedOverrides ==
    {"get_lease", "get_nightly", "get_failed_monitor_testcases",
     "get_failed_monitor_testcases_from_xml", "get_failed_e2e_testcases",
     "get_junit_symptom_detection_testcase_failures", "get_all_failed_tc",
     "get_brief_job_info", "get_detailed_job_info", Sensitive}
\* the operations that do answer by the generic table
GenericOps ==
    {"fetch_release_date", "fetch_build_time", "get_jobs", "get_n_recent_jobs",
     "check_job_status", "cluster_deploy_status", "cluster_creation_error_analysis",
     "check_if_gather_libvirt_dir_exists", "check_hypervisor_error", "get_node_status",
     "check_node_crash", "check_ts_exe_status", "print_all_failed_tc", "get_jobs_with_date",
     "get_next_page_first_build_date"}

\* C2 as stated: every operation that is not a listed override answers a
\* collaborator error with the generic table's string.
C2_GenericTableOutsideListedOverrides ==
    (last.op \in OpNames \ ListedOverrides /\ last.beh.raises)
        => last.out = Return(GenericLegacyValue(last.beh.exc))

\* C2 amended: the generic table is what the fifteen operations of GenericOps
\* answer with (the listed overrides, get_quota_and_nightly,
\* get_testcase_frequency, check_testcase_failure and the five forwarding
\* operations are outside it).
C2_GenericTableOnGenericOps ==
    (last.op \in GenericOps /\ last.beh.raises)
        => last.out = Return(GenericLegacyValue(last.beh.exc))

C2_Witness ==
    /\ last.op = "cluster_deploy_status" /\ last.beh = Raise("ProwFetchError")
    /\ last.out = Return(PyStr("Error while sending request to url"))

\* ---- C3
Affixes == {"", "Error in check_if_sensitive_info_exposed: "}
\* msg holds sub between two of the known affixes
Contains(msg, sub) == \E pre \in Affixes, post \in Affixes : msg = pre \o sub \o post

TupleNormalizing ==
    {"get_failed_monitor_testcases", "get_failed_monitor_testcases_from_xml",
     "get_failed_e2e_testcases", "get_junit_symptom_detection_testcase_failures"}

\* C4: a tuple-normalizing operation turns a bare list L into (L, None) and
\* returns a 2-tuple it was given unchanged.
C4_TupleNormalization ==
    (last.op \in TupleNormalizing /\ ~last.beh.raises) =>
        /\ last.beh.value.tag = "list"
              => last.out = Return(PyTuple(<<last.beh.value, None>>))
        /\ (last.beh.value.tag = "tuple" /\ Len(last.beh.value.elems) = 2)
              => last.out = Return(last.beh.value)

\* ---- C5
LenOrZero(map, key) == IF key \in DOMAIN map THEN Len(map[key]) ELSE 0

\* C5: get_all_failed_tc turns a bare mapping M into (M, n, E), n the sum of
\* the three sub-list lengths and E all None, and returns a 3-tuple unchanged.
C5_AllFailedTcSuccess ==
    (last.op = "get_all_failed_tc" /\ ~last.beh.raises) =>
        LET v == last.beh.value IN
        /\ v.tag = "dict" =>
              last.out = Return(PyTuple(<<v,
                                          PyInt(LenOrZero(v.map, "conformance")
                                                + LenOrZero(v.map, "monitor")
                                                + LenOrZero(v.map, "symptom_detection")),
                                          PyDict([k \in TcKeys |-> None])>>))
        /\ (v.tag = "tuple" /\ Len(v.elems) = 3) => last.out = Return(v)

\* the example of the specification: lists of 1, 0 and 2 testcases give 3
C5_Witness ==
    /\ last.op = "get_all_failed_tc"
    /\ last.beh = Return(PyDict([conformance |-> TcList(1), monitor |-> <<>>,
                                 symptom_detection |-> TcList(2)]))
    /\ last.out.value.elems[2] = PyInt(3)

\* ---- C6
LoadedPROW_URL == IF atLoad.PROW_URL = Missing THEN None ELSE atLoad.PROW_URL
LoadedItems == IF atLoad.final_job_list = Missing THEN <<>> ELSE atLoad.items

\* C6 as stated: the mirrors still equal the values captured at load (for
\* final_job_list, the job list the collaborator had at load, or the empty
\* list), whatever the collaborator has done to its own attributes since.
C6_MirrorsEqualLoadTimeValues ==
    /\ PROW_URL = LoadedPROW_URL
    /\ heap[final_job_list.ref] = LoadedItems

\* C6 amended: the mirrors are still bound to the objects captured at load:
\* PROW_URL to the load-time string or None, final_job_list to the very list
\* object the collaborator had at load, or to the adapter's own empty list.
\* No rebinding by the collaborator and no wrapped call changes that; the list
\* is held by reference, so what the collaborator does to that object in place
\* shows through the mirror.
C6_MirrorsBoundToLoadTimeObjects ==
    /\ PROW_URL = LoadedPROW_URL
    /\ final_job_list = IF atLoad.final_job_list = Missing THEN PyListRef(AdapterRef)
                        ELSE atLoad.final_job_list
    /\ atLoad.final_job_list = Missing => heap[AdapterRef] = <<>>

\* set_prow_url has rebound the collaborator's PROW_URL and
\* the collaborator has rebound its list: both mirrors are stale
C6_Witness ==
    /\ last.op = "set_prow_url"
    /\ monitor_PROW_URL # atLoad.PROW_URL
    /\ PROW_URL # monitor_PROW_URL
    /\ atLoad.final_job_list # Missing
    /\ monitor_final_job_list # final_job_list

\* ---- C7
\* C7: a name the adapter does not bind reads as the collaborator's attribute
\* of that name as it is now (an AttributeError when the collaborator has
\* none), and a name the adapter binds reads as the adapter's own object.
C7_AttributeFallback ==
    last.op = "getattr" =>
        IF last.arg \in AdapterNames
        THEN last.out = Return(CASE last.arg = "PROW_URL" -> PROW_URL
                                 [] last.arg = "final_job_list" -> final_job_list
                                 [] OTHER -> PyFunc("monitor_compact", last.arg))
        ELSE last.out = IF MonitorDict(last.arg) = Missing THEN Raise("AttributeError")
                        ELSE Return(MonitorDict(last.arg))

\* the collaborator-only name reads as its current value, which is not the
\* value it had at load
C7_Witness ==
    /\ last.op = "getattr" /\ last.arg = "extra_constant"
    /\ last.out = Return(monitor_extra)
    /\ monitor_extra # atLoad.extra

\* ---- C8
\* C8: get_lease, get_nightly, get_brief_job_info and get_detailed_job_info
\* answer every error kind with their one fixed value.
C8_FixedOverrides ==
    last.beh.raises =>
        /\ last.op = "get_lease"
              => last.out = Return(PyStr("Failed to fetch lease information"))
        /\ (last.op = "get_nightly" /\ last.arg = "powervs")
              => last.out = Return(PyStr("Unable to fetch nightly powervs information - No match found"))
        /\ (last.op = "get_nightly" /\ last.arg = "libvirt")
              => last.out = Return(PyStr("Unable to fetch nightly libvirt information - No match found"))
        /\ last.op = "get_brief_job_info" => last.out = Return(PyList(<<>>))
        /\ last.op = "get_detailed_job_info" => last.out = Return(PyInt(1))

C8_Witness ==
    /\ last.op = "get_nightly" /\ last.arg = "libvirt" /\ last.beh = Raise("ProwTimeoutError")
    /\ ~last.out.raises

\* ---- C9
IsErrorObject(v) ==
    /\ v.tag = "dict"
    /\ DOMAIN v.map = TcKeys
    /\ \A k \in TcKeys : v.map[k].tag = "str"
\* a tuple with an error field filled in: one element is a string or an
\* error object of strings
TupleWithError(v) ==
    /\ v.tag = "tuple"
    /\ \E i \in DOMAIN v.elems : v.elems[i].tag = "str" \/ IsErrorObject(v.elems[i])
\* the legacy shapes the specification lists for a returned value
LegacyShape(out) ==
    /\ ~out.raises
    /\ \/ out.value.tag = "str"
       \/ out.value = PyList(<<>>)
       \/ out.value = PyDict(<<>>)
       \/ out.value.tag = "int"
       \/ TupleWithError(out.value)

\* C9 as stated: a collaborator failure is answered with one of the listed
\* legacy shapes, or, in check_if_sensitive_info_exposed only, with a raised
\* RuntimeError.
C9_OnlyLegacyShapes ==
    (last.op \in OpNames /\ last.beh.raises) =>
        IF last.op = Sensitive
        THEN last.out.raises /\ last.out.exc = "RuntimeError"
        ELSE LegacyShape(last.out)

\* C9 amended: as stated, with two more shapes: check_testcase_failure answers
\* with the boolean False, and the five forwarding operations let the
\* collaborator's own error reach the caller.
C9_LegacyShapesFalseOrPropagated ==
    (last.op \in OpNames /\ last.beh.raises) =>
        IF last.op = Sensitive THEN last.out.raises /\ last.out.exc = "RuntimeError"
        ELSE IF last.op \in Forwarding THEN last.out = last.beh
        ELSE IF last.op = "check_testcase_failure" THEN last.out = Return(PyBool(FALSE))
        ELSE LegacyShape(last.out)

C9_Witness ==
    /\ last.op = "check_testcase_failure" /\ last.beh = Raise("ProwParseError")
    /\ last.out = Return(PyBool(FALSE))

\* ---- C10
AllFailedTcError(msg) ==
    Return(PyTuple(<<PyDict(<<>>), PyInt(0),
                     PyDict([conformance |-> PyStr(msg), monitor |-> PyStr(msg),
                             symptom_detection |-> PyStr(msg)])>>))

\* C10: get_all_failed_tc answers a collaborator error, or a result that is
\* neither a 3-tuple nor a mapping, with ({}, 0, E), the three entries of E
\* holding the one message of the error's kind.
C10_AllFailedTcFailure ==
    last.op = "get_all_failed_tc" =>
        IF last.beh.raises
        THEN last.out = AllFailedTcError(
                 CASE last.beh.exc = "ProwTimeoutError" -> "Request timed out"
                   [] last.beh.exc = "ProwFetchError" -> "Error while sending request to url"
                   [] last.beh.exc = "ProwParseError"
                        -> "Failed to parse the data from e2e-test log file!"
                   [] OTHER -> "Test summary file not found")
        ELSE (/\ last.beh.value.tag # "dict"
              /\ ~(last.beh.value.tag = "tuple" /\ Len(last.beh.value.elems) = 3))
                 => last.out = AllFailedTcError("Test summary file not found")

\* a 2-tuple from the collaborator fails the normalization and is answered
\* with the catch-all message
C10_Witness ==
    /\ last.op = "get_all_failed_tc"
    /\ last.beh = Return(PyTuple(<<PyList(<<>>), None>>))
    /\ last.out = AllFailedTcError("Test summary file not found")

====
